---- MODULE Spec2Model ----
\* Model of the AgriSmart single page (src/src/app/layout.tsx, component Home)
\* and of the image helpers it calls (src/src/lib/imageUtils.ts).
\*
\* Numbers.  Soil values (pH, nitrogen, phosphorus, potassium) and crop
\* suitabilities are decimal fractions in the program.  The model keeps them
\* as integers counted in hundredths: pH 6.5 is 650, nitrogen 0.8 is 80, a
\* suitability of 95 is 9500.  Every formula of the program is linear in
\* these values, so the hundredths are exact.  An absent (undefined) field
\* is the value Absent.
EXTENDS Integers, Sequences, FiniteSets, TLC

VARIABLES formData, loading, imageUploading, results, submitted, pending,
          inflight, alerts, raised, lastRun

vars == <<formData, loading, imageUploading, results, submitted, pending,
          inflight, alerts, raised, lastRun>>

-----------------------------------------------------------------------------
\* Bounds of the model.

\* The number of alert dialogs counted before invalid uploads stop.
MaxAlerts == 1

-----------------------------------------------------------------------------
\* Values.

Absent == -1

\* results === null, and "no promise of generateRecommendations is pending".
Null == [null |-> TRUE]

\* The promise that handleSubmit awaits has rejected.
Rejected == [rejected |-> TRUE]

\* formData.imageFile === undefined.
NoFile == [type |-> "", size |-> Absent]

\* The soil values of the readings considered, in hundredths: the ends of
\* each domain range, every threshold of the program and a value on each
\* side of it.
PHValues == {0, 500, 550, 600, 650, 680, 700, 750, 800, 900, 1400}
NitrogenValues == {0, 40, 50, 60, 70, 80, 90, 1000}
PhosphorusValues == {0, 5, 10, 15, 20, 500}
PotassiumValues == {0, 50, 70, 80, 90, 100, 800}

Fields == {"pH", "nitrogen", "phosphorus", "potassium"}

\* The texts a user types into the number input of a field; Absent is the
\* empty text.
TypedValues(field) ==
    CASE field = "pH" -> {Absent, 0, 550, 800}
      [] field = "nitrogen" -> {Absent, 40}
      [] field = "phosphorus" -> {Absent, 5}
      [] field = "potassium" -> {Absent, 50}

\* interface SoilData: every field optional.
SoilData ==
    [pH : PHValues \cup {Absent}, nitrogen : NitrogenValues \cup {Absent},
     phosphorus : PhosphorusValues \cup {Absent},
     potassium : PotassiumValues \cup {Absent}]

\* soilData: {}
EmptySoilData ==
    [pH |-> Absent, nitrogen |-> Absent, phosphorus |-> Absent,
     potassium |-> Absent]

-----------------------------------------------------------------------------
\* Arithmetic of the program.

Abs(x) == IF x < 0 THEN -x ELSE x

Min(a, b) == IF a < b THEN a ELSE b

\* Math.round of x/den for den > 0: the nearest integer, halves rounded up
\* (towards +infinity).
RoundHalfDown(x, den) == -(((-2 * x) + den) \div (2 * den))
MathRound(x, den) == ((2 * x) + den) \div (2 * den)

\* a || b on an optional number: undefined and 0 are falsy.
OrDefault(v, d) == IF v = Absent \/ v = 0 THEN d ELSE v

-----------------------------------------------------------------------------
\* generateRecommendations: the defaults of the four soil values.

DefaultPH == 650
DefaultNitrogen == 80
DefaultPhosphorus == 15
DefaultPotassium == 90

\* The four local constants pH, nitrogen, phosphorus, potassium.
Defaulted(soilData) ==
    [pH |-> OrDefault(soilData.pH, DefaultPH),
     nitrogen |-> OrDefault(soilData.nitrogen, DefaultNitrogen),
     phosphorus |-> OrDefault(soilData.phosphorus, DefaultPhosphorus),
     potassium |-> OrDefault(soilData.potassium, DefaultPotassium)]

-----------------------------------------------------------------------------
\* generateRecommendations: soil health.

LimeAdvisory == "Apply lime to increase pH"
SulfurAdvisory == "Apply sulfur to decrease pH"
CompostAdvisory == "Increase nitrogen with organic compost"
PhosphateAdvisory == "Add phosphate fertilizer"
PotassiumAdvisory == "Apply potassium-rich fertilizer"
MaintenanceAdvisories ==
    <<"Maintain current nutrient balance", "Regular soil testing recommended">>

soilStatus(pH) ==
    IF pH < 600 THEN "Acidic" ELSE IF pH > 750 THEN "Alkaline" ELSE "Good"

improvementsRatioThreshold(pH, nitrogen, phosphorus, potassium) ==
    LET i1 == IF pH < 600 THEN <<LimeAdvisory>>
              ELSE IF pH > 750 THEN <<SulfurAdvisory>> ELSE <<>>
        i2 == IF nitrogen < 50 THEN Append(i1, CompostAdvisory) ELSE i1
        i3 == IF phosphorus < 10 THEN Append(i2, PhosphateAdvisory) ELSE i2
        i4 == IF potassium < 70 THEN Append(i3, PotassiumAdvisory) ELSE i3
    IN  IF Len(i4) = 0 THEN i4 \o MaintenanceAdvisories ELSE i4
improvements(pH, nitrogen, phosphorus, potassium) ==
    LET i1 == IF pH < 600 THEN <<LimeAdvisory>>
              ELSE IF pH > 750 THEN <<SulfurAdvisory>> ELSE <<>>
        i2 == IF nitrogen < 50 THEN Append(i1, CompostAdvisory) ELSE i1
        i3 == IF phosphorus < 10 THEN Append(i2, PhosphateAdvisory) ELSE i2
        i4 == IF potassium < 80 THEN Append(i3, PotassiumAdvisory) ELSE i3
    IN  IF Len(i4) = 0 THEN i4 \o MaintenanceAdvisories ELSE i4

-----------------------------------------------------------------------------
\* generateRecommendations: crops.  A suitability is in hundredths.

TonsPerHectare(n) == ToString(n) \o " tons/hectare"

TomatoSuitabilityUncapped(pH, nitrogen) ==
    6000 + (nitrogen * 30) + (700 - Abs(pH - 650)) * 5
TomatoSuitability(pH, nitrogen) ==
    Min(9500, 6000 + (nitrogen * 30) + (700 - Abs(pH - 650)) * 5)

LettuceSuitabilityNarrow(pH, phosphorus) ==
    Min(9500, 7000 + phosphorus + (800 - Abs(pH - 680)) * 3)
LettuceSuitability(pH, phosphorus) ==
    Min(9500, 7000 + (phosphorus * 100) + (800 - Abs(pH - 680)) * 3)

PepperSuitabilityUncapped(pH, potassium) ==
    6500 + (potassium * 25) + (750 - Abs(pH - 680)) * 4
PepperSuitability(pH, potassium) ==
    Min(9500, 6500 + (potassium * 25) + (750 - Abs(pH - 680)) * 4)

Tomato(pH, nitrogen) ==
    [name |-> "Tomato", suitability |-> TomatoSuitability(pH, nitrogen),
     expectedYield |-> TonsPerHectare(MathRound(2000 + nitrogen * 10, 100))]

Lettuce(pH, phosphorus) ==
    [name |-> "Lettuce", suitability |-> LettuceSuitability(pH, phosphorus),
     expectedYield |-> TonsPerHectare(MathRound(1200 + phosphorus * 20, 100))]

Pepper(pH, potassium) ==
    [name |-> "Pepper", suitability |-> PepperSuitability(pH, potassium),
     expectedYield |-> TonsPerHectare(MathRound(1500 + potassium * 8, 100))]

HardyVegetables ==
    [name |-> "Hardy Vegetables", suitability |-> 7000,
     expectedYield |-> "10-15 tons/hectare"]

\* The array recommendedCrops after the four pushes, before the slice.
recommendedCropsPepperFirst(pH, nitrogen, phosphorus, potassium) ==
    LET c1 == IF pH >= 600 /\ pH <= 700 /\ nitrogen >= 60
              THEN <<Tomato(pH, nitrogen)>> ELSE <<>>
        c2 == IF potassium >= 70 THEN Append(c1, Pepper(pH, potassium)) ELSE c1
        c3 == Append(c2, Lettuce(pH, phosphorus))
    IN  IF Len(c3) = 0 THEN Append(c3, HardyVegetables) ELSE c3
recommendedCropsEager(pH, nitrogen, phosphorus, potassium) ==
    LET c1 == IF pH >= 600 /\ pH <= 700 /\ nitrogen >= 60
              THEN <<Tomato(pH, nitrogen)>> ELSE <<>>
        c2 == Append(c1, Lettuce(pH, phosphorus))
        c3 == IF potassium >= 70 THEN Append(c2, Pepper(pH, potassium)) ELSE c2
    IN  IF Len(c3) <= 1 THEN Append(c3, HardyVegetables) ELSE c3
recommendedCrops(pH, nitrogen, phosphorus, potassium) ==
    LET c1 == IF pH >= 600 /\ pH <= 700 /\ nitrogen >= 60
              THEN <<Tomato(pH, nitrogen)>> ELSE <<>>
        c2 == Append(c1, Lettuce(pH, phosphorus))
        c3 == IF potassium >= 70 THEN Append(c2, Pepper(pH, potassium)) ELSE c2
    IN  IF Len(c3) = 0 THEN Append(c3, HardyVegetables) ELSE c3

\* Array.prototype.slice(0, 3)
SliceFrom3(s) == SubSeq(s, 4, Len(s))
SliceTop3(s) == SubSeq(s, 1, Min(3, Len(s)))

-----------------------------------------------------------------------------
\* generateRecommendations: fertilizer.

nRatioInclusive(nitrogen) ==
    LET r1 == IF nitrogen <= 80 THEN 15 ELSE 10
    IN  IF nitrogen <= 50 THEN 20 ELSE r1
nRatio(nitrogen) ==
    LET r1 == IF nitrogen < 80 THEN 15 ELSE 10
    IN  IF nitrogen < 50 THEN 20 ELSE r1

pRatio(phosphorus) ==
    LET r1 == IF phosphorus < 15 THEN 15 ELSE 10
    IN  IF phosphorus < 10 THEN 20 ELSE r1

kRatioReordered(potassium) ==
    LET r1 == IF potassium < 70 THEN 20 ELSE 10
    IN  IF potassium < 90 THEN 15 ELSE r1
kRatio(potassium) ==
    LET r1 == IF potassium < 90 THEN 15 ELSE 10
    IN  IF potassium < 70 THEN 20 ELSE r1

\* Math.round((nRatio + pRatio + kRatio) * 2.5 + 100)
fertilizerCostHalfDown(sum) == RoundHalfDown(sum * 25 + 1000, 10)
fertilizerCost(sum) == MathRound(sum * 25 + 1000, 10)

\* Math.round(150 + (nRatio + pRatio + kRatio) * 3)
fertilizerQuantity(sum) == MathRound(150 + sum * 3, 1)

fertilizerRecommendation(n, p, k) ==
    [npkRatio |-> ToString(n) \o "-" \o ToString(p) \o "-" \o ToString(k),
     quantity |-> ToString(fertilizerQuantity(n + p + k)) \o " kg/hectare",
     estimatedCost |-> "$" \o ToString(fertilizerCost(n + p + k))]

-----------------------------------------------------------------------------
\* generateRecommendations: the value its promise resolves with.

generateRecommendations(soilData) ==
    LET d == Defaulted(soilData)
    IN  [recommendedCrops |->
             SliceTop3(recommendedCrops(d.pH, d.nitrogen, d.phosphorus,
                                        d.potassium)),
         fertilizerRecommendation |->
             fertilizerRecommendation(nRatio(d.nitrogen), pRatio(d.phosphorus),
                                      kRatio(d.potassium)),
         soilHealth |->
             [status |-> soilStatus(d.pH),
              improvements |-> improvements(d.pH, d.nitrogen, d.phosphorus,
                                            d.potassium)]]

-----------------------------------------------------------------------------
\* imageUtils.ts

\* const maxSize = 10 * 1024 * 1024, in bytes.
MaxSize == 10 * 1024 * 1024

AllowedTypes == {"image/jpeg", "image/jpg", "image/png", "image/webp"}

\* String.prototype.toLowerCase on the MIME types of the model.
ToLowerCase(type) ==
    CASE type = "IMAGE/PNG" -> "image/png"
      [] OTHER -> type

\* The files a user picks: [type, size in bytes].
Files ==
    {[type |-> "IMAGE/PNG", size |-> MaxSize],
     [type |-> "image/webp", size |-> MaxSize + 1],
     [type |-> "image/gif", size |-> 2048]}

isValidImageFile(file) ==
    IF ToLowerCase(file.type) \notin AllowedTypes THEN FALSE
    ELSE IF file.size > MaxSize THEN FALSE
    ELSE TRUE

\* What the captioning model's text says about each soil value: the first
\* number that the patterns of a field match, or Absent when none matches.
TextPH == {Absent, 0, 1500}
TextNitrogen == {Absent, 0}
TextPhosphorus == {Absent, 5}
TextPotassium == {Absent, 0}

Texts ==
    [pH : TextPH, nitrogen : TextNitrogen, phosphorus : TextPhosphorus,
     potassium : TextPotassium]

\* The empty string: no pattern matches.
EmptyText == EmptySoilData

\* The ways one run of the analysis goes.
AnalysisRuns == {"urlThrows", "noPipeline", "callRaises", "text"}

\* extractTextFromImage: "" when the pipeline is missing or raises.
extractTextFromImage(run, text) ==
    IF run = "noPipeline" \/ run = "callRaises" THEN EmptyText ELSE text

\* A matched value is kept when it lies in the range of its field.
InRange(v, max) == IF v >= 0 /\ v <= max THEN v ELSE Absent

parseSoilDataFromText(text) ==
    [pH |-> InRange(text.pH, 1400),
     nitrogen |-> InRange(text.nitrogen, 1000),
     phosphorus |-> InRange(text.phosphorus, 500),
     potassium |-> InRange(text.potassium, 800)]

\* The default reading returned when nothing was extracted, or on an error.
FallbackSoilData ==
    [pH |-> 650, nitrogen |-> 80, phosphorus |-> 15, potassium |-> 90]

\* Object.keys(soilData).length
KeyCount(soilData) == Cardinality({f \in Fields : soilData[f] # Absent})

analyzeImageForSoilDataNoDefault(run, text) ==
    IF run = "urlThrows" THEN FallbackSoilData
    ELSE parseSoilDataFromText(extractTextFromImage(run, text))
analyzeImageForSoilData(run, text) ==
    IF run = "urlThrows" THEN FallbackSoilData
    ELSE LET soilData == parseSoilDataFromText(extractTextFromImage(run, text))
         IN  IF KeyCount(soilData) = 0 THEN FallbackSoilData ELSE soilData

-----------------------------------------------------------------------------
\* The page: component Home.

\* { ...a, ...b }: the keys present in b replace those of a.
Spread(a, b) == [f \in Fields |-> IF b[f] # Absent THEN b[f] ELSE a[f]]

\* parseFloat(value) || undefined, for the text of a number input: Absent is
\* the empty text, whose parseFloat is NaN.
ParseFloatOrUndefined(value) ==
    IF value = Absent \/ value = 0 THEN Absent ELSE value

\* The form is on screen and no handler is between two of its steps.
FormShown == results = Null /\ pending = Null

Init ==
    /\ formData = [soilData |-> EmptySoilData, imageFile |-> NoFile]
    /\ loading = FALSE
    /\ imageUploading = FALSE
    /\ results = Null
    /\ submitted = EmptySoilData
    /\ pending = Null
    /\ inflight = 0
    /\ alerts = 0
    /\ raised = FALSE
    /\ lastRun = "none"

updateSoilData(field, value) ==
    /\ FormShown
    /\ formData' = [formData EXCEPT
                      !.soilData[field] = ParseFloatOrUndefined(value)]
    /\ UNCHANGED <<loading, imageUploading, results, submitted, pending,
                   inflight, alerts, raised, lastRun>>

\* handleImageUpload up to its await, or to its end when the file is refused.
handleImageUpload(file) ==
    /\ FormShown
    /\ ~imageUploading
    /\ IF file = NoFile
       THEN UNCHANGED <<formData, imageUploading, inflight, alerts, lastRun>>
       ELSE IF ~isValidImageFile(file)
       THEN /\ alerts < MaxAlerts
            /\ formData' = [formData EXCEPT !.imageFile = file]
            /\ alerts' = alerts + 1
            /\ imageUploading' = FALSE
            /\ UNCHANGED <<inflight, lastRun>>
       ELSE /\ formData' = [formData EXCEPT !.imageFile = file]
            /\ imageUploading' = TRUE
            /\ inflight' = inflight + 1
            /\ lastRun' = "none"
            /\ UNCHANGED alerts
    /\ UNCHANGED <<loading, results, submitted, pending, raised>>

\* How the run of an analysis is remembered in lastRun: its kind, and
\* "noValue" for a text in which no value was found.
RunKind(run, text) ==
    IF run = "text" /\ KeyCount(parseSoilDataFromText(text)) = 0
    THEN "noValue" ELSE run

\* handleImageUpload from its await to its end.  analyzeImageForSoilData
\* catches its own errors, so the await never rejects.
handleImageUploadResume(run, text) ==
    /\ inflight > 0
    /\ formData' = [formData EXCEPT
                      !.soilData = Spread(@, analyzeImageForSoilData(run, text))]
    /\ imageUploading' = FALSE
    /\ inflight' = inflight - 1
    /\ lastRun' = RunKind(run, text)
    /\ UNCHANGED <<loading, results, submitted, pending, alerts, raised>>

\* handleSubmit up to its await.
handleSubmit ==
    /\ FormShown
    /\ ~loading
    /\ loading' = TRUE
    /\ pending' = generateRecommendations(formData.soilData)
    /\ submitted' = formData.soilData
    /\ UNCHANGED <<formData, imageUploading, results, inflight, alerts,
                   raised, lastRun>>

\* handleSubmit from its await to its end.  generateRecommendations has no
\* throwing step, so in Spec the await never rejects and the catch block
\* is not entered.
handleSubmitResumeStuck ==
    /\ pending # Null
    /\ pending # Rejected
    /\ results' = pending
    /\ pending' = Null
    /\ raised' = FALSE
    /\ UNCHANGED <<loading, formData, imageUploading, submitted, inflight,
                   alerts, lastRun>>
handleSubmitResume ==
    /\ pending # Null
    /\ pending # Rejected
    /\ results' = pending
    /\ loading' = FALSE
    /\ pending' = Null
    /\ raised' = FALSE
    /\ UNCHANGED <<formData, imageUploading, submitted, inflight, alerts,
                   lastRun>>

\* handleSubmit up to its await, when the call of the recommendation step
\* raises: the awaited promise rejects.  No step of generateRecommendations
\* does that; this action is part of ThrowSpec only.
handleSubmitRaising ==
    /\ FormShown
    /\ ~loading
    /\ loading' = TRUE
    /\ pending' = Rejected
    /\ submitted' = formData.soilData
    /\ UNCHANGED <<formData, imageUploading, results, inflight, alerts,
                   raised, lastRun>>

\* const fallbackResults
fallbackResults ==
    [recommendedCrops |->
       <<[name |-> "Mixed Vegetables", suitability |-> 7500,
          expectedYield |-> "15-20 tons/hectare"]>>,
     fertilizerRecommendation |->
       [npkRatio |-> "10-10-10", quantity |-> "200 kg/hectare",
        estimatedCost |-> "$150"],
     soilHealth |->
       [status |-> "Needs Analysis",
        improvements |-> <<"Get detailed soil test",
                           "Monitor nutrient levels">>]]

\* handleSubmit from its rejected await to its end: catch, then finally.
handleSubmitCatchStuck ==
    /\ pending = Rejected
    /\ results' = fallbackResults
    /\ pending' = Null
    /\ raised' = TRUE
    /\ UNCHANGED <<loading, formData, imageUploading, submitted, inflight,
                   alerts, lastRun>>
handleSubmitCatch ==
    /\ pending = Rejected
    /\ results' = fallbackResults
    /\ loading' = FALSE
    /\ pending' = Null
    /\ raised' = TRUE
    /\ UNCHANGED <<formData, imageUploading, submitted, inflight, alerts,
                   lastRun>>

\* onClick of "Analyze Another Farm".
AnalyzeAnotherFarmResetsAll ==
    /\ results # Null
    /\ results' = Null
    /\ formData' = [soilData |-> EmptySoilData, imageFile |-> NoFile]
    /\ submitted' = EmptySoilData
    /\ raised' = FALSE
    /\ imageUploading' = FALSE
    /\ UNCHANGED <<loading, pending, inflight, alerts, lastRun>>
AnalyzeAnotherFarm ==
    /\ results # Null
    /\ results' = Null
    /\ formData' = [soilData |-> EmptySoilData, imageFile |-> NoFile]
    /\ submitted' = EmptySoilData
    /\ raised' = FALSE
    /\ UNCHANGED <<loading, imageUploading, pending, inflight, alerts,
                   lastRun>>

Next ==
    \/ \E field \in Fields :
         \E value \in TypedValues(field) : updateSoilData(field, value)
    \/ \E file \in Files \cup {NoFile} : handleImageUpload(file)
    \/ \E run \in AnalysisRuns : \E text \in Texts :
         handleImageUploadResume(run, text)
    \/ handleSubmit
    \/ handleSubmitResume
    \/ AnalyzeAnotherFarm

Spec == Init /\ [][Next]_vars

\* The promise of generateRecommendations is settled when it is returned, so
\* the continuation of handleSubmit is always run.  Nothing makes the
\* captioning model answer, so the image analysis has no such guarantee.
FairSpec == Spec /\ WF_vars(handleSubmitResume)

\* The page when the recommendation step may raise.
ThrowNext ==
    \/ Next
    \/ handleSubmitRaising
    \/ handleSubmitCatch

ThrowSpec == Init /\ [][ThrowNext]_vars

\* The calculator on every reading of the grid.  A reading holds a zero only
\* after an image put it there (a typed zero is stored as undefined), so
\* such a reading comes with the image file still in the form.
HasZero(soilData) == \E f \in Fields : soilData[f] = 0

CalcInit ==
    /\ formData \in [soilData : SoilData, imageFile : Files \cup {NoFile}]
    /\ formData.imageFile # NoFile => isValidImageFile(formData.imageFile)
    /\ HasZero(formData.soilData) => formData.imageFile # NoFile
    /\ loading = FALSE
    /\ imageUploading = FALSE
    /\ results = Null
    /\ submitted = EmptySoilData
    /\ pending = Null
    /\ inflight = 0
    /\ alerts = 0
    /\ raised = FALSE
    /\ lastRun = "none"

CalcNext ==
    \/ handleSubmit
    \/ handleSubmitResume
    \/ AnalyzeAnotherFarm

CalcSpec == CalcInit /\ [][CalcNext]_vars

TypeOK ==
    /\ formData.soilData \in SoilData
    /\ formData.imageFile \in Files \cup {NoFile}
    /\ loading \in BOOLEAN
    /\ imageUploading \in BOOLEAN
    /\ submitted \in SoilData
    /\ inflight \in 0..1
    /\ alerts \in 0..MaxAlerts
    /\ raised \in BOOLEAN
    /\ lastRun \in AnalysisRuns \cup {"none", "noValue"}

-----------------------------------------------------------------------------
\* Properties.  While a result is displayed, submitted is the soil record
\* that the displayed result was computed from.

Shown == results # Null

Crops == results.recommendedCrops

CropNames == {Crops[i].name : i \in DOMAIN Crops}

Ratios == {10, 15, 20}

NpkString(n, p, k) == ToString(n) \o "-" \o ToString(p) \o "-" \o ToString(k)

\* A field as the specification reads it: the default when absent.
ValueOr(v, d) == IF v = Absent THEN d ELSE v

\* C1: every displayed crop list has at least 1 and at most 3 entries,
\* whatever fields of the reading are present, absent or zero.
C1_CropListLength == Shown => Len(Crops) >= 1 /\ Len(Crops) <= 3

C1_Witness == Shown /\ Len(Crops) = 3 /\ HasZero(submitted)

\* C2: every submit is eventually followed by a state where a complete
\* result is displayed and the loading flag is false again.
CompleteResult ==
    /\ Shown
    /\ Len(results.recommendedCrops) >= 1
    /\ results.fertilizerRecommendation.npkRatio # ""
    /\ results.soilHealth.status # ""
    /\ Len(results.soilHealth.improvements) >= 1

C2_SubmitEndsWithResult == loading ~> (CompleteResult /\ ~loading)

C2_Witness == CompleteResult /\ ~loading /\ submitted # EmptySoilData

\* C3 (as claimed): a reading whose pH is present, between 0 and 14, is
\* Acidic below 6.0, Alkaline above 7.5 and Good otherwise; Acidic comes
\* with the lime advisory and Alkaline with the sulfur advisory.
C3_StatusFollowsPresentPH ==
    (Shown /\ submitted.pH # Absent /\ submitted.pH >= 0
       /\ submitted.pH <= 1400)
    => /\ results.soilHealth.status =
            IF submitted.pH < 600 THEN "Acidic"
            ELSE IF submitted.pH > 750 THEN "Alkaline" ELSE "Good"
       /\ submitted.pH < 600 =>
            \E i \in DOMAIN results.soilHealth.improvements :
              results.soilHealth.improvements[i] = LimeAdvisory
       /\ submitted.pH > 750 =>
            \E i \in DOMAIN results.soilHealth.improvements :
              results.soilHealth.improvements[i] = SulfurAdvisory

\* Neither Tomato's nor Pepper's condition holds for the values pH,
\* nitrogen, potassium.
NoConditionalCrop(pH, nitrogen, potassium) ==
    /\ ~(pH >= 600 /\ pH <= 700 /\ nitrogen >= 60)
    /\ ~(potassium >= 70)

\* C4 (as claimed): when no conditional crop qualifies, the crop list is
\* exactly one "Hardy Vegetables" entry with suitability 70.
C4_HardyVegetablesWhenNoneQualifies ==
    (Shown /\ NoConditionalCrop(ValueOr(submitted.pH, DefaultPH),
                                ValueOr(submitted.nitrogen, DefaultNitrogen),
                                ValueOr(submitted.potassium, DefaultPotassium)))
    => /\ Len(Crops) = 1
       /\ Crops[1].name = "Hardy Vegetables"
       /\ Crops[1].suitability = 7000

\* C4 (amended): when no conditional crop qualifies on the defaulted values,
\* the crop list is exactly the one Lettuce entry, and no displayed crop
\* list holds a "Hardy Vegetables" entry.
C4_LettuceAloneWhenNoneQualifies ==
    Shown =>
      /\ "Hardy Vegetables" \notin CropNames
      /\ NoConditionalCrop(Defaulted(submitted).pH,
                           Defaulted(submitted).nitrogen,
                           Defaulted(submitted).potassium)
         => Len(Crops) = 1 /\ Crops[1].name = "Lettuce"

C4_Witness ==
    /\ Shown
    /\ submitted.pH = 900
    /\ submitted.potassium = 50
    /\ Len(Crops) = 1

\* C5 (as claimed): nitrogen 0.9 and pH 6.5 give a Tomato entry of
\* suitability 92.
C5_TomatoIs92 ==
    (Shown /\ submitted.nitrogen = 90 /\ submitted.pH = 650)
    => \E i \in DOMAIN Crops :
         Crops[i].name = "Tomato" /\ Crops[i].suitability = 9200

\* C5 (amended): nitrogen 0.9 and pH 6.5 give a Tomato entry of
\* suitability 95, the cap of min(95, 60 + 27 + 5 x (7 - 0)).
C5_TomatoIs95 ==
    (Shown /\ submitted.nitrogen = 90 /\ submitted.pH = 650)
    => \E i \in DOMAIN Crops :
         Crops[i].name = "Tomato" /\ Crops[i].suitability = 9500

C5_Witness ==
    Shown /\ submitted.nitrogen = 90 /\ submitted.pH = 650
      /\ "Tomato" \in CropNames

\* C6 (as claimed): for the empty reading the Lettuce suitability is
\* min(95, 70 + 15 + 3 x (8 - 0.3)) and is about 93, i.e. rounds to 93.
C6_EmptyLettuceAbout93 ==
    (Shown /\ submitted = EmptySoilData)
    => \E i \in DOMAIN Crops :
         /\ Crops[i].name = "Lettuce"
         /\ Crops[i].suitability = Min(9500, 7000 + 1500 + 3 * (800 - 30))
         /\ Crops[i].suitability >= 9250
         /\ Crops[i].suitability < 9350

\* C6 (amended): for the empty reading the Lettuce suitability is
\* min(95, 70 + 15 + 3 x (8 - 0.3)) = min(95, 108.1), which is 95.
C6_EmptyLettuceIs95 ==
    (Shown /\ submitted = EmptySoilData)
    => \E i \in DOMAIN Crops :
         /\ Crops[i].name = "Lettuce"
         /\ Crops[i].suitability = Min(9500, 7000 + 1500 + 3 * (800 - 30))
         /\ Crops[i].suitability = 9500

C6_Witness == Shown /\ submitted = EmptySoilData /\ "Lettuce" \in CropNames

\* C7: for the empty reading the fertilizer plan is "10-10-10",
\* "240 kg/hectare" and "$175".
C7_EmptyFertilizerPlan ==
    (Shown /\ submitted = EmptySoilData)
    => results.fertilizerRecommendation =
         [npkRatio |-> "10-10-10", quantity |-> "240 kg/hectare",
          estimatedCost |-> "$175"]

C7_Witness ==
    /\ Shown
    /\ submitted = EmptySoilData
    /\ formData.soilData = EmptySoilData
    /\ results.fertilizerRecommendation.quantity = "240 kg/hectare"

\* C8 (as claimed): a reading whose potassium is present and below 0.7 has
\* no Pepper entry and 20 as the K part of its NPK ratio.
C8_LowPotassium ==
    (Shown /\ submitted.potassium # Absent /\ submitted.potassium < 70)
    => /\ "Pepper" \notin CropNames
       /\ \E n \in Ratios : \E p \in Ratios :
            results.fertilizerRecommendation.npkRatio = NpkString(n, p, 20)

\* The ratio of an axis: the tightest threshold that its value is below.
Tightest(v, low, high) == IF v < low THEN 20 ELSE IF v < high THEN 15 ELSE 10

\* C9: each part of the NPK ratio is decided from its own defaulted nutrient
\* by the tightest matching threshold; the parts are 10, 15 or 20.
C9_TightestThreshold ==
    Shown =>
      LET d == Defaulted(submitted)
      IN  results.fertilizerRecommendation.npkRatio =
            NpkString(Tightest(d.nitrogen, 50, 80),
                      Tightest(d.phosphorus, 10, 15),
                      Tightest(d.potassium, 70, 90))

C9_Witness ==
    /\ Shown
    /\ submitted.nitrogen = 40
    /\ submitted.phosphorus = 10
    /\ submitted.potassium = 80
    /\ results.fertilizerRecommendation.npkRatio = "20-15-15"

\* round(2.5 x S + 100), halves up, for each sum S of three ratios.
CostOfSum ==
    [S \in {30, 35, 40, 45, 50, 55, 60} |->
       CASE S = 30 -> 175 [] S = 35 -> 188 [] S = 40 -> 200 [] S = 45 -> 213
         [] S = 50 -> 225 [] S = 55 -> 238 [] S = 60 -> 250]

\* C10: with S the sum of the three parts of the NPK ratio, the quantity is
\* 150 + 3 x S and the cost is round(2.5 x S + 100) with halves rounded up,
\* so a larger S never costs less.
C10_QuantityAndCost ==
    Shown =>
      \E n \in Ratios : \E p \in Ratios : \E k \in Ratios :
        LET S == n + p + k
        IN  /\ results.fertilizerRecommendation.npkRatio = NpkString(n, p, k)
            /\ results.fertilizerRecommendation.quantity =
                 ToString(150 + 3 * S) \o " kg/hectare"
            /\ 150 + 3 * S >= 240 /\ 150 + 3 * S <= 330
            /\ results.fertilizerRecommendation.estimatedCost =
                 "$" \o ToString(CostOfSum[S])
            /\ \A T \in DOMAIN CostOfSum : T <= S => CostOfSum[T] <= CostOfSum[S]

C10_Witness ==
    /\ Shown
    /\ results.fertilizerRecommendation.npkRatio = "15-10-10"
    /\ results.fertilizerRecommendation.estimatedCost = "$188"

\* The advisories of a reading, in the order the specification lists them,
\* each kept when its condition holds for the values pH, nitrogen,
\* phosphorus, potassium.
AdvisoriesDue(pH, nitrogen, phosphorus, potassium) ==
    LET Due(a) ==
          \/ a = LimeAdvisory /\ pH < 600
          \/ a = SulfurAdvisory /\ pH > 750
          \/ a = CompostAdvisory /\ nitrogen < 50
          \/ a = PhosphateAdvisory /\ phosphorus < 10
          \/ a = PotassiumAdvisory /\ potassium < 80
    IN  SelectSeq(<<LimeAdvisory, SulfurAdvisory, CompostAdvisory,
                    PhosphateAdvisory, PotassiumAdvisory>>, Due)

\* C11: the improvements list is never empty; it holds, in order, the lime
\* or sulfur advisory (never both), compost, phosphate and potassium, each
\* exactly when its condition holds on the defaulted values, and it is the
\* two maintenance messages exactly when no condition holds.
C11_Improvements ==
    Shown =>
      LET d == Defaulted(submitted)
          due == AdvisoriesDue(d.pH, d.nitrogen, d.phosphorus, d.potassium)
          list == results.soilHealth.improvements
      IN  /\ Len(list) >= 1
          /\ ~(\E i, j \in DOMAIN list :
                 list[i] = LimeAdvisory /\ list[j] = SulfurAdvisory)
          /\ Len(due) > 0 => list = due
          /\ Len(due) = 0 => list = MaintenanceAdvisories
          /\ (\E i \in DOMAIN list : list[i] = MaintenanceAdvisories[1])
             <=> Len(due) = 0

C11_Witness ==
    /\ Shown
    /\ submitted.pH = 800
    /\ submitted.nitrogen = 40
    /\ submitted.potassium = 70
    /\ results.soilHealth.improvements =
         <<SulfurAdvisory, CompostAdvisory, PotassiumAdvisory>>

\* The crops of a reading in the order Tomato, Lettuce, Pepper, each kept
\* when its inclusion rule holds for the values pH, nitrogen, potassium.
CropsDue(pH, nitrogen, potassium) ==
    LET Due(c) ==
          \/ c = "Tomato" /\ pH >= 600 /\ pH <= 700 /\ nitrogen >= 60
          \/ c = "Lettuce"
          \/ c = "Pepper" /\ potassium >= 70
    IN  SelectSeq(<<"Tomato", "Lettuce", "Pepper">>, Due)

\* C12: the crop list is exactly the crops whose inclusion rule holds on the
\* defaulted values, in the order Tomato, Lettuce, Pepper; the truncation
\* to three entries drops none of them.
C12_CropsInFixedOrder ==
    Shown =>
      LET d == Defaulted(submitted)
      IN  [i \in DOMAIN Crops |-> Crops[i].name] =
            CropsDue(d.pH, d.nitrogen, d.potassium)

\* Lettuce scores less than Pepper here, and still comes first.
C12_Witness ==
    /\ Shown
    /\ Len(Crops) = 2
    /\ Crops[1].name = "Lettuce"
    /\ Crops[2].name = "Pepper"
    /\ Crops[1].suitability < Crops[2].suitability

\* C13: for a reading whose values lie in the domain ranges (pH 0 to 14,
\* nitrogen 0 to 10, phosphorus 0 to 5, potassium 0 to 8), every crop of
\* the list has a suitability between 0 and 100.
InDomain(v, max) == v = Absent \/ (v >= 0 /\ v <= max)

C13_SuitabilityRange ==
    (Shown /\ InDomain(submitted.pH, 1400) /\ InDomain(submitted.nitrogen, 1000)
       /\ InDomain(submitted.phosphorus, 500)
       /\ InDomain(submitted.potassium, 800))
    => \A i \in DOMAIN Crops :
         Crops[i].suitability >= 0 /\ Crops[i].suitability <= 10000

C13_Witness ==
    /\ Shown
    /\ submitted.pH = 1400
    /\ submitted.nitrogen = 1000
    /\ submitted.phosphorus = 500
    /\ submitted.potassium = 800
    /\ Len(Crops) = 2

\* The analysis step fails: the pipeline cannot be initialised, the model
\* call raises, or the text holds no soil value within its range.
AnalysisFails(run, text) ==
    \/ run = "noPipeline"
    \/ run = "callRaises"
    \/ /\ run = "text"
       /\ ~(text.pH >= 0 /\ text.pH <= 1400)
       /\ ~(text.nitrogen >= 0 /\ text.nitrogen <= 1000)
       /\ ~(text.phosphorus >= 0 /\ text.phosphorus <= 500)
       /\ ~(text.potassium >= 0 /\ text.potassium <= 800)

\* C14: when the analysis step fails, analyzeImageForSoilData returns pH 6.5,
\* nitrogen 0.8, phosphorus 0.15, potassium 0.9 (the merge puts exactly
\* these four values in the form) and the upload handler ends with no alert
\* and imageUploading false.
C14_FailedAnalysisGivesDefaults ==
    [][\A run \in AnalysisRuns : \A text \in Texts :
         (AnalysisFails(run, text) /\ handleImageUploadResume(run, text))
         => /\ formData'.soilData =
                 [pH |-> 650, nitrogen |-> 80, phosphorus |-> 15,
                  potassium |-> 90]
            /\ formData'.imageFile = formData.imageFile
            /\ alerts' = alerts
            /\ imageUploading' = FALSE]_vars

C14_Witness ==
    /\ lastRun \in {"noPipeline", "callRaises", "noValue"}
    /\ formData.soilData = FallbackSoilData
    /\ ~imageUploading
    /\ alerts = 0

\* C15: when the recommendation step raises during a submit, the displayed
\* result is the static fallback (one "Mixed Vegetables" crop at suitability
\* 75, NPK "10-10-10", status "Needs Analysis") and loading is false again;
\* "Needs Analysis" and "Mixed Vegetables" are displayed in no other case.
C15_FallbackOnlyWhenRaised ==
    Shown =>
      /\ raised =>
           /\ Len(Crops) = 1
           /\ Crops[1].name = "Mixed Vegetables"
           /\ Crops[1].suitability = 7500
           /\ results.fertilizerRecommendation.npkRatio = "10-10-10"
           /\ results.soilHealth.status = "Needs Analysis"
           /\ loading = FALSE
      /\ ~raised =>
           /\ results.soilHealth.status # "Needs Analysis"
           /\ "Mixed Vegetables" \notin CropNames

C15_Witness ==
    Shown /\ raised /\ results.soilHealth.status = "Needs Analysis"

\* C16 (as claimed): between the start of an image analysis and the merge
\* of its result, no other action reads (a submit) or writes (an edit, a
\* reset) the soil record of the form.
C16_NoAccessDuringAnalysis ==
    [][(inflight > 0 /\ inflight' > 0)
       => (formData'.soilData = formData.soilData /\ ~handleSubmit)]_vars

\* C17 (as claimed): the upload of a file that isValidImageFile rejects
\* starts no analysis, shows an alert, leaves imageUploading false and
\* leaves the form record, soil values and image file, unchanged.
C17_RejectedUploadLeavesForm ==
    [][\A file \in Files :
         (~isValidImageFile(file) /\ handleImageUpload(file))
         => /\ inflight' = inflight
            /\ alerts' = alerts + 1
            /\ imageUploading' = FALSE
            /\ formData' = formData]_vars

\* C18: at most one image analysis is in flight, and imageUploading is true
\* exactly while one is, also across a submit and a reset made meanwhile.
C18_OneAnalysisInFlight ==
    /\ inflight <= 1
    /\ imageUploading <=> inflight = 1

\* An analysis is still pending behind a displayed result.
C18_Witness == imageUploading /\ inflight = 1 /\ Shown

====
